---- MODULE Spec2Model ----
(***************************************************************************)
(* Outbound HTTP client multiplexer of the users service                   *)
(* (src/src/http/client.rs): many ClientHandle callers push Payloads       *)
(* through one bounded mpsc channel to a single Dispatcher (Client::stream)*)
(* which performs the Transport round trip and answers each Payload        *)
(* through its oneshot Correlator.                                         *)
(***************************************************************************)
EXTENDS Integers, Sequences, FiniteSets, TLC

\* ------------------------------------------------------------------ bounds
MaxReqs == 2
MaxRetriesCfg == 3
MaxBuffer == 1

Reqs == 1..MaxReqs

\* ------------------------------------------------------------------ data
\* Option<X> is the empty set (None) or a singleton (Some(x)).
None == {}
Some(x) == {x}

GoodUrl == "http://provider/userinfo"
BadUrl == "not a url"

\* The (method, url, body) triples callers pass to ClientHandle::request.
Inputs ==
    { [method |-> "POST", url |-> GoodUrl, body |-> Some("{\"q\":1}")],
      [method |-> "GET", url |-> BadUrl, body |-> None] }

BodyT == "{\"id\":\"42\"}"
BodyErr == "{\"code\":500,\"message\":\"boom\"}"
BodyJunk == "oops"
Bodies == {BodyT, BodyErr, BodyJunk}

\* What one Transport round trip can produce: the exchange fails (conn), the
\* response head arrives and reading the body fails (read), or status and
\* body arrive.
Response(status, body) == [conn |-> TRUE, read |-> TRUE, status |-> status, body |-> body]
ConnFailure == [conn |-> FALSE, read |-> FALSE, status |-> 0, body |-> ""]
ReadFailure == [conn |-> TRUE, read |-> FALSE, status |-> 200, body |-> ""]
TransportOutcomes ==
    { ConnFailure, ReadFailure,
      Response(200, BodyT), Response(200, BodyJunk), Response(201, BodyT),
      Response(404, BodyJunk), Response(500, BodyErr) }

\* What a round trip amounts to for the caller of client.request: a failure
\* of the exchange (hyper::Error at either stage) or status and body.
Failed(o) == ~o.conn \/ ~o.read
Observed(o) == IF Failed(o) THEN ConnFailure ELSE o

\* ClientResult = Result<String, Error>; one record shape for all variants.
Ok(body) == [kind |-> "Ok", status |-> 0, message |-> None, text |-> body, value |-> None]
Api(status, message) == [kind |-> "Api", status |-> status, message |-> message, text |-> "", value |-> None]
Network(detail) == [kind |-> "Network", status |-> 0, message |-> None, text |-> detail, value |-> None]
Parse(detail) == [kind |-> "Parse", status |-> 0, message |-> None, text |-> detail, value |-> None]
Unknown(detail) == [kind |-> "Unknown", status |-> 0, message |-> None, text |-> detail, value |-> None]
\* Ok(T) produced by ClientHandle::request after deserialization.
Value(v) == [kind |-> "Value", status |-> 0, message |-> None, text |-> "", value |-> Some(v)]
NoResult == [kind |-> "", status |-> 0, message |-> None, text |-> "", value |-> None]

MsgMissing == "Unexpected missing error in send_request_with_retries"
MsgSending == "Unexpected error sending http client request params to channel"
MsgReceiving == "Unexpected error receiving http client response from channel"
MsgUrl == "Cannot parse url"
\* The hyper::Error carried by Error::Network, by the stage that failed.
ErrConnect == "request failed"
ErrReadBody == "reading the body failed"
MsgDecode == "expected value"

\* Variant: every string is accepted as a url.
UrlParses_Any(url) == TRUE

\* url.parse::<hyper::Uri>()
UrlParses(url) == url = GoodUrl

\* Variant: the error body is never decoded.
DecodeErrorMessage_Never(body) == None

\* serde_json::from_str::<ErrorMessage>(&body).ok()
DecodeErrorMessage(body) ==
    IF body = BodyErr THEN Some([code |-> 500, message |-> "boom"]) ELSE None

\* serde_json::from_str::<T>(&response) for T = {id: string}
DecodeT(body) ==
    IF body = BodyT THEN Some([id |-> "42"]) ELSE None

\* The status match of Client::send_request.
IsSuccessStatus(status) == status = 200

\* Client::send_request: the outcome of client.request(req) turned into the
\* ClientResult handed to callback.send.
Classify(o) ==
    IF ~o.conn THEN Network(ErrConnect)
    ELSE IF ~o.read THEN Network(ErrReadBody)
    ELSE IF IsSuccessStatus(o.status) THEN Ok(o.body)
    ELSE Api(o.status, DecodeErrorMessage(o.body))

\* Variant: the body is handed on without being checked against T.
Deserialize_Unchecked(body) == Value([id |-> body])

\* ClientHandle::request: the and_then applied to a successful response.
Deserialize(body) ==
    IF DecodeT(body) # None
    THEN Value(CHOOSE v \in DecodeT(body) : TRUE)
    ELSE Parse(MsgDecode)

\* ------------------------------------------------------------------ state
VARIABLES
    max_retries,    \* ClientHandle.max_retries (config http_client_retries)
    buffer,         \* mpsc::channel buffer (config http_client_buffer_size)
    queue,          \* messages held by the mpsc channel, oldest first
    parked_queue,   \* sender tasks parked by the channel, oldest first
    dispatcher,     \* "polling" | "busy" | "stopped" (the spawned for_each task)
    inflight,       \* Option<Payload>: the Payload whose Transport call is outstanding
    pc,             \* per logical request: idle | created | waiting | done | abandoned
    input,          \* per request: the (method, url, body) passed to request
    retries,        \* per request: the `retries` argument of the current recursion level
    last_err,       \* per request: the `last_err` argument, Option<Error>
    attempt,        \* per request: number of oneshot channels created so far
    slot,           \* per request: state of the current oneshot channel
    result,         \* per request: what the request future resolved to
    resolutions,    \* per request: how many times the request future resolved
    log,            \* per request: counts of info!/warn!/error! events of ClientHandle
    enq,            \* per request: Payloads pushed on the channel
    calls,          \* per request: Transport calls started (client.request)
    trace           \* per request: what its Transport calls produced, in order

chanVars == <<queue, parked_queue>>
dispVars == <<dispatcher, inflight, calls, trace>>
callerVars == <<pc, input, retries, last_err, attempt, result, resolutions, log>>
cfgVars == <<max_retries, buffer>>
vars == <<max_retries, buffer, queue, parked_queue, dispatcher, inflight, pc, input,
          retries, last_err, attempt, slot, result, resolutions, log, enq, calls, trace>>

NoInput == [method |-> "", url |-> "", body |-> None]
EmptySlot == [state |-> "empty", val |-> NoResult]
FullSlot(res) == [state |-> "full", val |-> res]
CanceledSlot == [state |-> "canceled", val |-> NoResult]
NoLog == [info |-> 0, warn |-> 0, error |-> 0]

\* Client::new, Client::handle, Client::stream and the spawn in start_server.
Init ==
    /\ max_retries \in 0..MaxRetriesCfg
    /\ buffer \in 1..MaxBuffer
    /\ queue = <<>>
    /\ parked_queue = <<>>
    /\ dispatcher = "polling"
    /\ inflight = None
    /\ pc = [r \in Reqs |-> "idle"]
    /\ input = [r \in Reqs |-> NoInput]
    /\ retries = [r \in Reqs |-> 0]
    /\ last_err = [r \in Reqs |-> None]
    /\ attempt = [r \in Reqs |-> 0]
    /\ slot = [r \in Reqs |-> EmptySlot]
    /\ result = [r \in Reqs |-> NoResult]
    /\ resolutions = [r \in Reqs |-> 0]
    /\ log = [r \in Reqs |-> NoLog]
    /\ enq = [r \in Reqs |-> 0]
    /\ calls = [r \in Reqs |-> 0]
    /\ trace = [r \in Reqs |-> <<>>]

\* ------------------------------------------------------------------ channel
\* Variant: a sender never notices that the channel was closed.
ChannelOpen_Always == TRUE

\* The receiving half lives in the Dispatcher task; dropping it closes the channel.
ChannelOpen == dispatcher # "stopped"

\* Variant: every Payload of a request carries the first attempt's Correlator.
MkPayload_Reused(r, a) ==
    [url |-> input[r].url, method |-> input[r].method, body |-> input[r].body,
     callback |-> <<r, 1>>]

\* struct Payload; callback names the oneshot channel: <<request, attempt>>.
MkPayload(r, a) ==
    [url |-> input[r].url, method |-> input[r].method, body |-> input[r].body,
     callback |-> <<r, a>>]

\* Variant: the message is put at the front of the queue.
ChannelPush_Front(p) ==
    /\ queue' = <<p>> \o queue
    /\ parked_queue' = IF Len(queue) + 1 > buffer
                       THEN Append(parked_queue, p.callback)
                       ELSE parked_queue

\* Variant: the message is pushed twice.
ChannelPush_Twice(p) ==
    /\ queue' = Append(Append(queue, p), p)
    /\ parked_queue' = IF Len(queue) + 1 > buffer
                       THEN Append(parked_queue, p.callback)
                       ELSE parked_queue

\* Sender::do_send of a fresh clone of tx: the message is always pushed, and
\* the sender task is parked when the channel then holds more than `buffer`.
ChannelPush(p) ==
    /\ queue' = Append(queue, p)
    /\ parked_queue' = IF Len(queue) + 1 > buffer
                       THEN Append(parked_queue, p.callback)
                       ELSE parked_queue

\* Variant: the newest message is taken first.
NextMessage_Newest(q) == q[Len(q)]

\* Receiver::next_message: the message the single consumer takes.
NextMessage(q) == Head(q)
AfterNextMessage(q) == Tail(q)

\* Receiver::unpark_one: one parked sender task is woken per message taken.
UnparkOne(pq) == IF pq = <<>> THEN pq ELSE Tail(pq)

\* ------------------------------------------------------------------ callers
Bump(lg, field) == [lg EXCEPT ![field] = @ + 1]

\* The request future completes with res.
Resolve(r, res, n, last, lg) ==
    /\ pc' = [pc EXCEPT ![r] = "done"]
    /\ result' = [result EXCEPT ![r] = res]
    /\ resolutions' = [resolutions EXCEPT ![r] = @ + 1]
    /\ retries' = [retries EXCEPT ![r] = n]
    /\ last_err' = [last_err EXCEPT ![r] = last]
    /\ log' = [log EXCEPT ![r] = lg]
    /\ UNCHANGED <<chanVars, enq>>

\* Variant: the remaining-attempt count is one counter shared by all requests.
SendPayload_SharedBudget(r, a, n, last, lg) ==
    IF ChannelOpen
    THEN /\ ChannelPush(MkPayload(r, a))
         /\ enq' = [enq EXCEPT ![r] = @ + 1]
         /\ pc' = [pc EXCEPT ![r] = "waiting"]
         /\ retries' = [q \in Reqs |-> n]
         /\ last_err' = [last_err EXCEPT ![r] = last]
         /\ log' = [log EXCEPT ![r] = lg]
         /\ UNCHANGED <<result, resolutions>>
    ELSE Resolve(r, Unknown(MsgSending), n, last, Bump(lg, "error"))

\* ClientHandle::send_request, the future once polled: self.tx.clone().send(payload)
\* followed by the wait on rx; a send on a closed channel is an Unknown error,
\* logged by the trailing map_err.
SendPayload(r, a, n, last, lg) ==
    IF ChannelOpen
    THEN /\ ChannelPush(MkPayload(r, a))
         /\ enq' = [enq EXCEPT ![r] = @ + 1]
         /\ pc' = [pc EXCEPT ![r] = "waiting"]
         /\ retries' = [retries EXCEPT ![r] = n]
         /\ last_err' = [last_err EXCEPT ![r] = last]
         /\ log' = [log EXCEPT ![r] = lg]
         /\ UNCHANGED <<result, resolutions>>
    ELSE Resolve(r, Unknown(MsgSending), n, last, Bump(lg, "error"))

\* Variant: the budget never counts as spent.
BudgetExhausted_Never(n) == FALSE

\* Variant: the budget counts as spent one attempt early.
BudgetExhausted_Early(n) == n <= 1

\* `if retries == 0` of send_request_with_retries.
BudgetExhausted(n) == n = 0

\* Variant: the exhausted budget always reports the generic error.
ExhaustedError_Generic(last) == Unknown(MsgMissing)

\* last_err.unwrap_or(Error::Unknown(..)): what the retries == 0 branch returns.
ExhaustedError(last) ==
    IF last = None THEN Unknown(MsgMissing) ELSE CHOOSE e \in last : TRUE

\* Variant: every error is retried.
IsRetryable_Any(err) == TRUE

\* The match of the or_else closure: which errors are retried.
IsRetryable(err) == err.kind = "Network"

\* Variant: a retry does not use up the budget.
RetriesAfter_Same(n) == n

\* `retries - 1` passed to the recursive call.
RetriesAfter(n) == n - 1

\* ClientHandle::request called: send_request_with_retries(.., None, max_retries)
\* builds the future. With retries > 0, send_request runs now (info! and the
\* oneshot channel); nothing is sent before the future is polled.
Request(r, in) ==
    /\ pc[r] = "idle"
    /\ pc' = [pc EXCEPT ![r] = "created"]
    /\ input' = [input EXCEPT ![r] = in]
    /\ retries' = [retries EXCEPT ![r] = max_retries]
    /\ last_err' = [last_err EXCEPT ![r] = None]
    /\ IF BudgetExhausted(max_retries)
       THEN UNCHANGED <<attempt, slot, log>>
       ELSE /\ attempt' = [attempt EXCEPT ![r] = @ + 1]
            /\ slot' = [slot EXCEPT ![r] = EmptySlot]
            /\ log' = [log EXCEPT ![r] = Bump(@, "info")]
    /\ UNCHANGED <<cfgVars, chanVars, dispVars, result, resolutions, enq>>

\* First poll of the request future.
Poll(r) ==
    /\ pc[r] = "created"
    /\ IF BudgetExhausted(retries[r])
       THEN Resolve(r, ExhaustedError(last_err[r]), retries[r], last_err[r], log[r])
       ELSE SendPayload(r, attempt[r], retries[r], last_err[r], log[r])
    /\ UNCHANGED <<cfgVars, dispVars, input, attempt, slot>>

\* The request future polled after its oneshot receiver became ready: the
\* rest of send_request, the or_else of send_request_with_retries (with the
\* recursive call and the poll of the future it returns) and the and_then of
\* request.
Receive(r) ==
    /\ pc[r] = "waiting"
    /\ slot[r].state # "empty"
    /\ LET res == IF slot[r].state = "canceled" THEN Unknown(MsgReceiving) ELSE slot[r].val
           lgE == Bump(log[r], "error")
           lgW == Bump(lgE, "warn")
           n == RetriesAfter(retries[r])
       IN  IF res.kind = "Ok"
           THEN /\ Resolve(r, Deserialize(res.text), retries[r], last_err[r], log[r])
                /\ UNCHANGED <<attempt, slot>>
           ELSE IF IsRetryable(res)
           THEN IF BudgetExhausted(n)
                THEN /\ Resolve(r, ExhaustedError(Some(res)), n, Some(res), lgW)
                     /\ UNCHANGED <<attempt, slot>>
                ELSE /\ attempt' = [attempt EXCEPT ![r] = @ + 1]
                     /\ slot' = [slot EXCEPT ![r] = EmptySlot]
                     /\ SendPayload(r, attempt[r] + 1, n, Some(res), Bump(lgW, "info"))
           ELSE /\ Resolve(r, res, retries[r], last_err[r], lgE)
                /\ UNCHANGED <<attempt, slot>>
    /\ UNCHANGED <<cfgVars, dispVars, input>>

\* The caller drops the request future before it resolved; the oneshot
\* receiver (and an unsent Payload) go with it.
Abandon(r) ==
    /\ pc[r] \in {"created", "waiting"}
    /\ pc' = [pc EXCEPT ![r] = "abandoned"]
    /\ UNCHANGED <<cfgVars, chanVars, dispVars, input, retries, last_err, attempt, slot,
                   result, resolutions, log, enq>>

\* ------------------------------------------------------------------ dispatcher
\* oneshot::Sender::send succeeds while the receiver has not been dropped.
ReceiverAlive(cb) == pc[cb[1]] = "waiting" /\ attempt[cb[1]] = cb[2]

Callbacks(q) == { q[i].callback : i \in 1..Len(q) }

\* Variant: the messages held at close are kept, never dropped.
DroppedOnClose_Kept(q) == {}

\* Receiver::drop: the channel is closed and the messages still held are
\* dropped, their oneshot senders with them.
DroppedOnClose(q) == Callbacks(q)

\* callback.send(res) and what Client::stream and for_each make of it: Ok
\* lets the stream go on to the next message; Err (receiver gone) becomes
\* the stream's error, which ends the for_each task and drops rx.
Answer(p, res, q, pq) ==
    IF ReceiverAlive(p.callback)
    THEN /\ slot' = [slot EXCEPT ![p.callback[1]] = FullSlot(res)]
         /\ dispatcher' = "polling"
         /\ queue' = q
         /\ parked_queue' = pq
    ELSE /\ dispatcher' = "stopped"
         /\ queue' = <<>>
         /\ parked_queue' = <<>>
         /\ slot' = [r \in Reqs |->
                IF <<r, attempt[r]>> \in DroppedOnClose(q) /\ ReceiverAlive(<<r, attempt[r]>>)
                THEN CanceledSlot ELSE slot[r]]

\* Variant: the receiver is polled while a Transport call is outstanding.
Dequeue_Eager ==
    /\ dispatcher # "stopped"
    /\ queue # <<>>
    /\ LET p == NextMessage(queue)
           q == AfterNextMessage(queue)
           pq == UnparkOne(parked_queue)
       IN  IF UrlParses(p.url)
           THEN /\ dispatcher' = "busy"
                /\ inflight' = Some(p)
                /\ queue' = q
                /\ parked_queue' = pq
                /\ calls' = [calls EXCEPT ![p.callback[1]] = @ + 1]
                /\ UNCHANGED <<slot, trace>>
           ELSE /\ Answer(p, Parse(MsgUrl), q, pq)
                /\ inflight' = None
                /\ UNCHANGED <<calls, trace>>
    /\ UNCHANGED <<cfgVars, callerVars, enq>>

\* Client::stream polled with a message ready: rx yields the Payload and
\* Client::send_request runs up to client.request(req); a url that does not
\* parse is answered at once.
Dequeue ==
    /\ dispatcher = "polling"
    /\ queue # <<>>
    /\ LET p == NextMessage(queue)
           q == AfterNextMessage(queue)
           pq == UnparkOne(parked_queue)
       IN  IF UrlParses(p.url)
           THEN /\ dispatcher' = "busy"
                /\ inflight' = Some(p)
                /\ queue' = q
                /\ parked_queue' = pq
                /\ calls' = [calls EXCEPT ![p.callback[1]] = @ + 1]
                /\ UNCHANGED <<slot, trace>>
           ELSE /\ Answer(p, Parse(MsgUrl), q, pq)
                /\ inflight' = None
                /\ UNCHANGED <<calls, trace>>
    /\ UNCHANGED <<cfgVars, callerVars, enq>>

\* The Transport call of the Payload in flight ends with outcome o: the
\* and_then/then chain of Client::send_request classifies it and answers.
Complete(o) ==
    /\ dispatcher = "busy"
    /\ LET p == CHOOSE x \in inflight : TRUE
           res == Classify(o)
       IN  /\ trace' = [trace EXCEPT ![p.callback[1]] = Append(@, Observed(o))]
           /\ Answer(p, res, queue, parked_queue)
           /\ inflight' = None
    /\ UNCHANGED <<cfgVars, callerVars, enq, calls>>

\* ------------------------------------------------------------------ spec
Next ==
    \/ \E r \in Reqs, in \in Inputs : Request(r, in)
    \/ \E r \in Reqs : Poll(r)
    \/ \E r \in Reqs : Receive(r)
    \/ \E r \in Reqs : Abandon(r)
    \/ Dequeue
    \/ \E o \in TransportOutcomes : Complete(o)

Spec == Init /\ [][Next]_vars

\* The event loop polls every task that was woken (tokio_core reactor), and
\* the Transport is taken to answer every call.
LiveSpec ==
    /\ Spec
    /\ WF_vars(Dequeue)
    /\ WF_vars(\E o \in TransportOutcomes : Complete(o))
    /\ \A r \in Reqs : WF_vars(Poll(r)) /\ WF_vars(Receive(r))

\* As LiveSpec, with a Transport that may never answer a call.
HangSpec ==
    /\ Spec
    /\ WF_vars(Dequeue)
    /\ \A r \in Reqs : WF_vars(Poll(r)) /\ WF_vars(Receive(r))

\* ------------------------------------------------------------------ claims
Started(r) == pc[r] \in {"created", "waiting"}
Settled(r) == pc[r] \in {"done", "abandoned"}
DispatcherRan == dispatcher # "stopped"
InQueue(r) == \E i \in 1..Len(queue) : queue[i].callback[1] = r
AllFailed(t) == \A i \in 1..Len(t) : Failed(t[i])

\* C1: every logical request that its caller keeps awaiting resolves exactly
\* once: its future never completes twice, it is done exactly when it has
\* one result, and once started it does not stay pending forever.
C1_ExactlyOnce ==
    /\ [](\A r \in Reqs : /\ resolutions[r] <= 1
                          /\ (pc[r] = "done" <=> resolutions[r] = 1)
                          /\ (pc[r] = "done" <=> result[r] # NoResult))
    /\ \A r \in Reqs : Started(r) ~> Settled(r)

\* All requests, more than the channel buffer, resolved by a running Dispatcher
\* after a Transport call each.
C1_Witness ==
    /\ MaxReqs > buffer
    /\ DispatcherRan
    /\ \A r \in Reqs : pc[r] = "done" /\ resolutions[r] = 1 /\ calls[r] >= 1

\* C2: a caller abandoning its request never stops the Dispatcher, and no
\* request finds the channel closed afterwards.
C2_CancellationSafe ==
    (\E a \in Reqs : pc[a] = "abandoned") =>
        /\ DispatcherRan
        /\ \A r \in Reqs : result[r] \notin {Unknown(MsgSending), Unknown(MsgReceiving)}

\* C3: with max_retries = 2 and a Transport failing every call, a finished
\* request got a Network error after exactly 3 Transport calls.
C3_RetryExhaustion ==
    \A r \in Reqs :
        ( /\ max_retries = 2
          /\ pc[r] = "done"
          /\ DispatcherRan
          /\ UrlParses(input[r].url)
          /\ AllFailed(trace[r]) )
        => (result[r].kind = "Network" /\ calls[r] = 3)

\* C4: with max_retries = 0 a finished request enqueued exactly one Payload,
\* had one Transport call and did not end in the synthesized Unknown error.
C4_ZeroRetriesOneAttempt ==
    \A r \in Reqs :
        ( /\ max_retries = 0
          /\ pc[r] = "done"
          /\ DispatcherRan
          /\ UrlParses(input[r].url) )
        => (enq[r] = 1 /\ calls[r] = 1 /\ result[r] # Unknown(MsgMissing))

\* C5: for every max_retries, a finished request whose Transport answers
\* 404 got Api(404) after exactly one Transport call.
C5_NotFoundNotRetried ==
    \A r \in Reqs :
        ( /\ pc[r] = "done"
          /\ DispatcherRan
          /\ UrlParses(input[r].url)
          /\ \A i \in 1..Len(trace[r]) : trace[r][i] = Response(404, BodyJunk) )
        => (result[r] = Api(404, None) /\ calls[r] = 1)

\* The script of C6: calls 1 and 2 fail, call 3 answers 200 with a body of type T.
FollowsScript6(t) ==
    \A i \in 1..Len(t) :
        /\ i <= 2 => Failed(t[i])
        /\ i = 3 => t[i] = Response(200, BodyT)
        /\ i <= 3

\* C6: with max_retries = 3 and a Transport failing calls 1 and 2 and
\* succeeding on call 3, the finished request holds the success value after
\* exactly 3 Transport calls and 2 retry warnings.
C6_BoundedRetrySuccess ==
    \A r \in Reqs :
        ( /\ max_retries = 3
          /\ pc[r] = "done"
          /\ DispatcherRan
          /\ UrlParses(input[r].url)
          /\ FollowsScript6(trace[r]) )
        => ( /\ result[r] = Value([id |-> "42"])
             /\ calls[r] = 3
             /\ Len(trace[r]) = 3
             /\ log[r].warn = 2 )

C6_Witness ==
    \E r \in Reqs :
        /\ max_retries = 3
        /\ pc[r] = "done"
        /\ DispatcherRan
        /\ trace[r] = <<ConnFailure, ConnFailure, Response(200, BodyT)>>
        /\ result[r] = Value([id |-> "42"])

\* C7: the channel never holds more Payloads than the configured buffer:
\* a producer finding it full has not placed its Payload yet.
C7_Backpressure == Len(queue) <= buffer

\* C8: Payloads reach the Transport in the order they were enqueued: every
\* enqueue appends at the back, every Transport call takes the oldest
\* Payload, and the channel is otherwise only shortened from the front or
\* emptied.
C8_Fifo ==
    [][ /\ (calls' # calls) =>
            /\ queue # <<>>
            /\ inflight' = Some(Head(queue))
            /\ queue' = Tail(queue)
        /\ (Len(queue') > Len(queue)) =>
            /\ Len(queue') = Len(queue) + 1
            /\ SubSeq(queue', 1, Len(queue)) = queue
        /\ (Len(queue') <= Len(queue)) =>
            \/ queue' = queue
            \/ queue' = <<>>
            \/ queue' = Tail(queue) ]_vars

\* Two producers' Payloads, one at the Transport and one enqueued behind it.
C8_Witness ==
    \E p \in inflight :
        /\ queue # <<>>
        /\ queue[1].callback[1] # p.callback[1]
        /\ calls[p.callback[1]] = 1

\* C9: while a Transport call is outstanding the Dispatcher still takes the
\* next Payload from the channel.
C9_InflightNeverBlocks ==
    (inflight # None /\ queue # <<>>) => ENABLED Dequeue

\* C10: a Transport answer with a 2xx status resolves the Correlator with
\* success carrying the body unchanged.
C10_Success2xx ==
    \A r \in Reqs :
        ( /\ slot[r].state = "full"
          /\ UrlParses(input[r].url)
          /\ Len(trace[r]) = calls[r]
          /\ calls[r] >= 1
          /\ ~Failed(trace[r][Len(trace[r])])
          /\ trace[r][Len(trace[r])].status \in 200..299 )
        => slot[r].val = Ok(trace[r][Len(trace[r])].body)

\* The Transport outcome that filled request r's current Correlator: defined
\* when r's url parses and none of its Transport calls is outstanding.
Answered(r) ==
    /\ slot[r].state = "full"
    /\ UrlParses(input[r].url)
    /\ calls[r] >= 1
    /\ Len(trace[r]) = calls[r]
LastOutcome(r) == trace[r][Len(trace[r])]

\* C11: a Transport response with a non-2xx status resolves the Correlator
\* with an Api error of that status, whose message is the decoded
\* {code, message} of the body when it has that shape and unset otherwise.
C11_ApiErrorForNon2xx ==
    \A r \in Reqs :
        (Answered(r) /\ ~Failed(LastOutcome(r)) /\ LastOutcome(r).status \notin 200..299)
        => /\ slot[r].val.kind = "Api"
           /\ slot[r].val.status = LastOutcome(r).status
           /\ (LastOutcome(r).body = BodyErr
                  => slot[r].val.message = {[code |-> 500, message |-> "boom"]})
           /\ (LastOutcome(r).body # BodyErr => slot[r].val.message = {})

\* Scenario B: status 500 with body {"code":500,"message":"boom"}.
C11_Witness ==
    \E r \in Reqs :
        /\ Answered(r)
        /\ LastOutcome(r) = Response(500, BodyErr)
        /\ slot[r].val = Api(500, {[code |-> 500, message |-> "boom"]})

\* C12: once the channel is closed no Payload is placed on it or handed to
\* the Transport any more; a request whose attempt was not answered, or
\* that attempts a new enqueue, ends at once with an Unknown error and no
\* new attempt; and no started request stays pending.
C12_ClosedQueueFailsFast ==
    /\ [][ dispatcher = "stopped" =>
             /\ queue' = <<>>
             /\ enq' = enq
             /\ calls' = calls
             /\ trace' = trace
             /\ \A r \in Reqs :
                  /\ (Started(r) /\ slot[r].state # "full" /\ pc'[r] # pc[r]) =>
                        \/ pc'[r] = "abandoned"
                        \/ /\ pc'[r] = "done"
                           /\ result'[r].kind = "Unknown"
                           /\ attempt'[r] = attempt[r]
                  /\ (Started(r) /\ attempt'[r] # attempt[r]) =>
                        /\ pc'[r] = "done"
                        /\ result'[r] = Unknown(MsgSending) ]_vars
    /\ \A r \in Reqs : (dispatcher = "stopped" /\ Started(r)) ~> Settled(r)

\* A request that found the channel closed when it enqueued: Unknown, no
\* Transport call.
C12_Witness ==
    \E r \in Reqs :
        /\ dispatcher = "stopped"
        /\ pc[r] = "done"
        /\ result[r] = Unknown(MsgSending)
        /\ enq[r] = 0
        /\ calls[r] = 0

\* The sender half of request r's current Correlator still exists: its
\* Payload is on the channel or at the Transport.
SenderHeld(r) ==
    \/ \E i \in 1..Len(queue) : queue[i].callback = <<r, attempt[r]>>
    \/ \E p \in inflight : p.callback = <<r, attempt[r]>>

\* C13: a waiting receiver whose sender is gone is never left empty: it is
\* resolved or cancelled; a cancelled one makes the request end with the
\* Unknown channel error, eventually; and a Correlator once resolved or
\* cancelled is never resolved again.
C13_DiscardedSenderResolves ==
    /\ [](\A r \in Reqs :
            (pc[r] = "waiting" /\ slot[r].state = "empty") => SenderHeld(r))
    /\ [][ \A r \in Reqs :
             /\ (pc[r] = "waiting" /\ slot[r].state = "canceled" /\ pc'[r] = "done")
                   => result'[r] = Unknown(MsgReceiving)
             /\ (slot[r].state # "empty" /\ attempt'[r] = attempt[r])
                   => slot'[r] = slot[r] ]_vars
    /\ \A r \in Reqs : (pc[r] = "waiting" /\ slot[r].state = "canceled") ~> Settled(r)

\* A request whose queued Payload was dropped with the channel.
C13_Witness ==
    \E r \in Reqs :
        /\ slot[r].state = "canceled"
        /\ pc[r] = "done"
        /\ result[r] = Unknown(MsgReceiving)
        /\ enq[r] = calls[r] + 1

\* What request r's current Correlator yields to its receiver.
Yielded(r) == IF slot[r].state = "canceled" THEN Unknown(MsgReceiving) ELSE slot[r].val

\* C14: an attempt that resolved with success or with an Api, Parse or
\* Unknown error ends the request: no further Correlator or Payload is made
\* for it, an error is the request's result unchanged, a success is decoded;
\* a further Payload is enqueued only after a Network error.
C14_OnlyNetworkRetried ==
    [][ \A r \in Reqs :
          /\ (pc[r] = "waiting" /\ slot[r].state # "empty" /\ Yielded(r).kind # "Network") =>
                /\ enq'[r] = enq[r]
                /\ attempt'[r] = attempt[r]
                /\ pc'[r] \in {"waiting", "done", "abandoned"}
                /\ (pc'[r] = "done" /\ Yielded(r).kind # "Ok") => result'[r] = Yielded(r)
                /\ (pc'[r] = "done" /\ Yielded(r).kind = "Ok") => result'[r].kind \in {"Value", "Parse"}
          /\ (pc[r] = "waiting" /\ enq'[r] # enq[r]) =>
                (slot[r].state = "full" /\ slot[r].val.kind = "Network") ]_vars

\* An Api error ended a request that had retry budget left.
C14_Witness ==
    \E r \in Reqs :
        /\ pc[r] = "done"
        /\ result[r] = Api(404, None)
        /\ retries[r] >= 2
        /\ enq[r] = 1
        /\ calls[r] = 1

\* C15: a successful attempt whose body does not deserialize into T ends
\* the request with Parse(detail) and no new attempt; a finished request
\* never changes, enqueues or reaches the Transport again.
C15_DecodeFailureIsParse ==
    [][ \A r \in Reqs :
          /\ ( /\ pc[r] = "waiting"
               /\ slot[r].state = "full"
               /\ slot[r].val.kind = "Ok"
               /\ slot[r].val.text # BodyT
               /\ pc'[r] = "done" )
             => /\ result'[r] = Parse(MsgDecode)
                /\ enq'[r] = enq[r]
                /\ attempt'[r] = attempt[r]
          /\ pc[r] = "done"
             => /\ pc'[r] = "done"
                /\ result'[r] = result[r]
                /\ enq'[r] = enq[r]
                /\ calls'[r] = calls[r] ]_vars

\* A 200 answer with an undecodable body ended a request that had budget left.
C15_Witness ==
    \E r \in Reqs :
        /\ pc[r] = "done"
        /\ result[r] = Parse(MsgDecode)
        /\ trace[r] = <<Response(200, BodyJunk)>>
        /\ retries[r] >= 2
        /\ enq[r] = 1

\* The retry budget of a finished request ran out after Network errors.
Exhausted(r) == pc[r] = "done" /\ max_retries >= 1 /\ retries[r] = 0

\* C16: a request whose budget ran out ends with the Network error that
\* its most recent attempt's Correlator delivered, never with Unknown.
C16_LastNetworkErrorReturned ==
    \A r \in Reqs :
        Exhausted(r) =>
            /\ slot[r].state = "full"
            /\ slot[r].val.kind = "Network"
            /\ result[r] = slot[r].val
            /\ last_err[r] = {result[r]}
            /\ enq[r] = max_retries

\* Two attempts failed; the body-read failure of the last one is returned.
C16_Witness ==
    \E r \in Reqs :
        /\ Exhausted(r)
        /\ calls[r] >= 2
        /\ AllFailed(trace[r])
        /\ result[r] = Network(ErrReadBody)

\* A step in which an attempt of request r ends in a failure: its Transport
\* call fails or answers a status other than 200, or its Payload's url is
\* found unparsable when dequeued.
AttemptFails(r) ==
    \/ /\ Len(trace'[r]) > Len(trace[r])
       /\ LET o == trace'[r][Len(trace'[r])] IN Failed(o) \/ o.status # 200
    \/ /\ dispatcher = "polling"
       /\ queue # <<>>
       /\ Len(queue') < Len(queue)
       /\ Head(queue).callback[1] = r
       /\ ~UrlParses(Head(queue).url)

\* What such a step leaves alone: the Dispatcher goes on polling, the other
\* Payloads stay queued in order and no other request's Correlator changes.
OthersUntouched(r) ==
    /\ dispatcher' = "polling"
    /\ queue' = queue \/ (queue # <<>> /\ queue' = Tail(queue))
    /\ \A q \in Reqs \ {r} : slot'[q] = slot[q] /\ pc'[q] = pc[q] /\ result'[q] = result[q]

\* C17: whenever an attempt of one request ends in a failure, the
\* Dispatcher keeps running and no other request is affected.
C17_FailureIsolation ==
    [][ \A r \in Reqs : AttemptFails(r) => OthersUntouched(r) ]_vars

\* The history of request r in the terms of the lifecycle: a Payload of it
\* was enqueued; the Dispatcher took a Payload of it (a Transport call was
\* made for it, or its url was rejected and the Correlator filled).
WasQueued(r) == enq[r] >= 1
WasDispatched(r) == calls[r] >= 1 \/ slot[r].state = "full"
FailedRetryable(r) ==
    pc[r] = "waiting" /\ slot[r].state = "full" /\ IsRetryable(slot[r].val)

\* C18: a request is queued only from Created or from Failed-Retryable, it
\* reaches a terminal state only after having been Queued and Dispatched at
\* least once, and a terminal state is never left.
C18_Lifecycle ==
    [][ \A r \in Reqs :
          /\ enq'[r] > enq[r] => pc[r] = "created" \/ FailedRetryable(r)
          /\ (pc[r] # "done" /\ pc'[r] = "done") => WasQueued(r) /\ WasDispatched(r)
          /\ pc[r] = "done" => pc'[r] = "done" /\ result'[r] = result[r] ]_vars

TerminalKinds == {"Value", "Api", "Network", "Parse", "Unknown"}

\* C19: with a fair Dispatcher and a Transport that answers every call, a
\* request that is awaited ends with exactly one terminal outcome, a value
\* or a classified error, whatever max_retries is and also when every
\* attempt fails: the attempts never exceed the budget.
C19_RetryLoopEnds ==
    /\ \A r \in Reqs : (pc[r] \in {"created", "waiting"}) ~> (pc[r] \in {"done", "abandoned"})
    /\ [](\A r \in Reqs : /\ attempt[r] <= max_retries
                          /\ retries[r] \in 0..max_retries
                          /\ pc[r] = "done" => /\ resolutions[r] = 1
                                               /\ result[r].kind \in TerminalKinds)

\* The full budget spent on failing attempts, and the request over.
C19_Witness ==
    \E r \in Reqs :
        /\ max_retries = MaxRetriesCfg
        /\ pc[r] = "done"
        /\ Len(trace[r]) = MaxRetriesCfg
        /\ AllFailed(trace[r])
        /\ result[r].kind = "Network"
        /\ resolutions[r] = 1

\* Where the Payloads of request r are: still queued, or with the Transport.
QueuedOf(r) == Cardinality({ i \in 1..Len(queue) : queue[i].callback[1] = r })
InflightOf(r) == Cardinality({ p \in inflight : p.callback[1] = r })

\* C20: every enqueued Payload is either still queued or was taken once by
\* the Dispatcher and caused one Transport round trip; none is held twice,
\* and an attempt is resolved only after the Transport call made for it.
C20_OneRoundTripPerPayload ==
    \A r \in Reqs :
        /\ enq[r] = QueuedOf(r) + calls[r]
        /\ calls[r] = Len(trace[r]) + InflightOf(r)
        /\ QueuedOf(r) + InflightOf(r) <= 1
        /\ slot[r].state = "full" => Len(trace[r]) = attempt[r]

\* The events ClientHandle::send_request logs: info! before the Payload is
\* sent, and error! in its trailing map_err, the one event after resolution.
AttemptEvents(lg) == lg.info
OutcomeEvents(lg) == lg.error

\* C21: every attempt is logged once before submission, and once a request
\* is over every one of its attempts has an outcome event, whether the
\* attempt succeeded or failed.
C21_AttemptAndOutcomeLogged ==
    \A r \in Reqs :
        /\ AttemptEvents(log[r]) = attempt[r]
        /\ enq[r] <= AttemptEvents(log[r])
        /\ pc[r] = "done" => OutcomeEvents(log[r]) = attempt[r]

\* C22: every Payload enqueued for a request, the first and each retry,
\* carries the method, url and body the caller passed to request, and a
\* Correlator of its own: one not used by any earlier Payload of the
\* request and not yet resolved.
C22_RetryReissuesSamePayload ==
    [][ \A r \in Reqs :
          /\ pc[r] # "idle" => input'[r] = input[r]
          /\ enq'[r] > enq[r] =>
                LET p == queue'[Len(queue')]
                IN  /\ p.method = input[r].method
                    /\ p.url = input[r].url
                    /\ p.body = input[r].body
                    /\ p.callback = <<r, enq'[r]>>
                    /\ p.callback \notin Callbacks(queue)
                    /\ slot'[r] = EmptySlot ]_vars

\* A retry Payload with a body waits in the queue.
C22_Witness ==
    \E r \in Reqs, i \in 1..Len(queue) :
        /\ enq[r] >= 2
        /\ queue[i].callback = <<r, 2>>
        /\ queue[i].body # None
        /\ Len(trace[r]) = 1

\* A step in which request q acts or is acted upon: its caller moves, one
\* of its Payloads is enqueued, or the Dispatcher answers one of its attempts.
Touches(q) ==
    \/ pc'[q] # pc[q]
    \/ attempt'[q] # attempt[q]
    \/ enq'[q] # enq[q]
    \/ trace'[q] # trace[q]
    \/ slot'[q] # slot[q]

\* C23: the remaining-attempt count and the last error of a request change
\* only in steps of that request: no step of another request, its Network
\* failures and retries included, changes them, and max_retries of the
\* handle never changes.
C23_RetryStatePrivate ==
    [][ /\ max_retries' = max_retries
        /\ \A r \in Reqs :
              (retries'[r] # retries[r] \/ last_err'[r] # last_err[r]) =>
                  /\ pc'[r] # pc[r] \/ attempt'[r] # attempt[r]
                  /\ \A q \in Reqs \ {r} :
                        /\ retries'[q] = retries[q]
                        /\ last_err'[q] = last_err[q]
        /\ \A r, q \in Reqs :
              (q # r /\ Touches(q) /\ ~Touches(r)) =>
                  retries'[r] = retries[r] /\ last_err'[r] = last_err[r] ]_vars

\* Two requests under way at once, one after a Network failure and a
\* retry, the other with its budget and last error as at the start.
C23_Witness ==
    \E r, q \in Reqs :
        /\ r # q
        /\ pc[r] = "waiting" /\ pc[q] = "waiting"
        /\ retries[r] = max_retries - 1
        /\ last_err[r] # None
        /\ retries[q] = max_retries
        /\ last_err[q] = None

\* C24: at most one Transport call is outstanding; while it is, the
\* Dispatcher takes no Payload from the queue, starts no other call and
\* resolves no Correlator, so a call that never returns keeps every queued
\* Payload queued; and the Correlator a step resolves is that of the
\* Payload dequeued last.
C24_OneCallAtATime ==
    /\ [](/\ Cardinality(inflight) <= 1
          /\ dispatcher = "busy" <=> inflight # None
          /\ inflight # None => ~ENABLED Dequeue)
    /\ [][ /\ (inflight # None /\ inflight' = inflight) =>
                /\ calls' = calls
                /\ \A r \in Reqs : slot'[r].state \in {slot[r].state, "empty"}
                /\ Len(queue') >= Len(queue)
                /\ SubSeq(queue', 1, Len(queue)) = queue
           /\ calls' # calls => inflight = None
           /\ \A r \in Reqs :
                (slot'[r] # slot[r] /\ slot'[r].state = "full") =>
                    IF inflight # None
                    THEN inflight = {MkPayload(r, attempt[r])}
                    ELSE queue # <<>> /\ Head(queue) = MkPayload(r, attempt[r]) ]_vars

\* A Transport call is outstanding and the Payload of another request waits
\* behind it.
C24_Witness ==
    \E r, q \in Reqs :
        /\ r # q
        /\ inflight = {MkPayload(r, attempt[r])}
        /\ queue # <<>>
        /\ Head(queue).callback[1] = q
        /\ calls[q] = 0
        /\ pc[q] = "waiting"

\* C25: the attempts of a request follow one another: a request never has
\* more than one Payload queued or with the Transport, and a further
\* Payload is enqueued for it only when the Correlator of its previous
\* attempt has been resolved with a Network error.
C25_AttemptsSequential ==
    /\ [](\A r \in Reqs : QueuedOf(r) + InflightOf(r) <= 1)
    /\ [][ \A r \in Reqs :
            (enq'[r] > enq[r] /\ enq[r] >= 1) =>
                /\ enq'[r] = enq[r] + 1
                /\ QueuedOf(r) + InflightOf(r) = 0
                /\ slot[r].state = "full"
                /\ slot[r].val.kind = "Network"
                /\ Len(trace[r]) = enq[r]
                /\ Failed(trace[r][enq[r]]) ]_vars

\* The second attempt of a request is with the Transport after the first
\* one failed.
C25_Witness ==
    \E r \in Reqs :
        /\ enq[r] = 2
        /\ inflight = {MkPayload(r, 2)}
        /\ trace[r] = <<ConnFailure>>

\* How many of the Transport calls in t failed.
CountFailed(t) == Cardinality({ i \in 1..Len(t) : Failed(t[i]) })

\* C26: no request ever has more Payloads enqueued than max_retries, and
\* the retry warning is logged once per attempt that ended in a Network
\* error, the last one of an exhausted budget included.
C26_AttemptsBounded ==
    \A r \in Reqs :
        /\ enq[r] <= max_retries
        /\ calls[r] <= max_retries
        /\ log[r].warn <= CountFailed(trace[r])
        /\ pc[r] = "done" => log[r].warn = CountFailed(trace[r])
        /\ (pc[r] = "done" /\ result[r].kind = "Network") =>
                log[r].warn = max_retries /\ enq[r] = max_retries

\* A request that used its whole budget on failing attempts, each of them
\* followed by a warning.
C26_Witness ==
    \E r \in Reqs :
        /\ max_retries >= 2
        /\ pc[r] = "done"
        /\ enq[r] = max_retries
        /\ log[r].warn = max_retries
        /\ CountFailed(trace[r]) = max_retries

\* C27: with max_retries >= 1, a request whose url does not parse never
\* causes a Transport call; the Dispatcher answers its Payload with the
\* Parse error, and the request ends with that error after its single
\* attempt.
C27_BadUrlIsParse ==
    \A r \in Reqs :
        (max_retries >= 1 /\ input[r].url = BadUrl) =>
            /\ calls[r] = 0
            /\ trace[r] = <<>>
            /\ enq[r] <= 1
            /\ attempt[r] = 1
            /\ log[r].warn = 0
            /\ slot[r].state = "full" => slot[r].val = Parse(MsgUrl)
            /\ (pc[r] = "done" /\ slot[r].state = "full") => result[r] = Parse(MsgUrl)

\* A request with an unparsable url ended with the Parse error although
\* retry budget was left.
C27_Witness ==
    \E r \in Reqs :
        /\ max_retries >= 2
        /\ input[r].url = BadUrl
        /\ pc[r] = "done"
        /\ result[r] = Parse(MsgUrl)
        /\ retries[r] = max_retries
        /\ enq[r] = 1

\* A step that enqueues a retry Payload of request r.
RetryEnqueued(r) == enq'[r] > enq[r] /\ enq[r] >= 1

\* C28: a retry Payload is appended at the back of the queue, behind every
\* Payload already queued, and the Dispatcher takes a Payload only from the
\* front, so the Payloads queued before the retry are dispatched before it.
C28_RetryGoesToBack ==
    [][ /\ \A r \in Reqs :
              RetryEnqueued(r) => queue' = Append(queue, MkPayload(r, enq'[r]))
        /\ (Len(queue') < Len(queue) /\ dispatcher' # "stopped") =>
              /\ queue' = Tail(queue)
              /\ UrlParses(Head(queue).url) => inflight' = {Head(queue)} ]_vars

\* The retry of one request waits behind the Payload another caller
\* enqueued while the first attempt was with the Transport.
C28_Witness ==
    \E r, q \in Reqs :
        /\ r # q
        /\ Len(queue) = 2
        /\ queue[1].callback = <<q, 1>>
        /\ queue[2].callback = <<r, 2>>
        /\ calls[q] = 0

====
